---------------------------- MODULE Spec2Model ----------------------------
(***************************************************************************)
(* IndevProxy (indevproxy.py): a proxy.py plugin that answers the legacy   *)
(* Minecraft web endpoints itself.  Byte strings are sequences of          *)
(* one-character strings, so that startswith / find / rfind / slicing are  *)
(* computed the way Python computes them.  request.path is ASCII (the      *)
(* framework's parser builds it with urlsplit), so .decode() never fails.  *)
(***************************************************************************)
EXTENDS Integers, Sequences, FiniteSets

(***************************************************************************)
(* Bounds of the model.                                                    *)
(***************************************************************************)
\* number of requests the proxy serves in one run
MaxRequests == 2

(***************************************************************************)
(* Python bytes helpers.                                                   *)
(***************************************************************************)
\* bytes.startswith
StartsWith(s, p) == Len(p) <= Len(s) /\ SubSeq(s, 1, Len(p)) = p

\* bytes.find: 0-based index of the first occurrence of ch, -1 if none
Find(s, ch) ==
    LET hits == {i \in 1..Len(s) : s[i] = ch}
    IN IF hits = {} THEN -1
       ELSE (CHOOSE i \in hits : \A j \in hits : i <= j) - 1

\* bytes.rfind: 0-based index of the last occurrence of ch, -1 if none
RFind(s, ch) ==
    LET hits == {i \in 1..Len(s) : s[i] = ch}
    IN IF hits = {} THEN -1
       ELSE (CHOOSE i \in hits : \A j \in hits : i >= j) - 1

\* s[a:b] with Python's treatment of a negative or out-of-range bound
Slice(s, a, b) ==
    LET n  == Len(s)
        lo == IF a < 0 THEN (IF a + n < 0 THEN 0 ELSE a + n) ELSE (IF a > n THEN n ELSE a)
        hi == IF b < 0 THEN (IF b + n < 0 THEN 0 ELSE b + n) ELSE (IF b > n THEN n ELSE b)
    IN IF hi <= lo THEN <<>> ELSE SubSeq(s, lo + 1, hi)

\* s[a:]
SliceFrom(s, a) == Slice(s, a, Len(s))

(***************************************************************************)
(* Module constants.                                                       *)
(***************************************************************************)
P_GAME       == <<"/","g","a","m","e","/">>
P_SKIN       == <<"/","s","k","i","n","/">>
P_CLOAK      == <<"/","c","l","o","a","k","/">>
P_RESOURCES  == <<"/","r","e","s","o","u","r","c","e","s","/">>
P_MCSKINS    == <<"/","M","i","n","e","c","r","a","f","t","S","k","i","n","s","/">>
P_MCCLOAKS   == <<"/","M","i","n","e","c","r","a","f","t","C","l","o","a","k","s","/">>
P_LISTMAPS   == <<"/","l","i","s","t","m","a","p","s",".","j","s","p">>
P_CLOAKQUERY == P_CLOAK \o <<"g","e","t",".","j","s","p","?","u","s","e","r","=">>

PROCESS_HOST == <<"www.minecraft.net", "s3.amazonaws.com", "skins.minecraft.net">>
PROCESS_ENDPOINT ==
    <<P_GAME, P_SKIN, P_CLOAK, P_RESOURCES, P_MCSKINS, P_MCCLOAKS, P_LISTMAPS>>

\* httpStatusCodes.OK
OK == 200

\* request.host in PROCESS_HOST
InList(l, x) == \E i \in 1..Len(l) : l[i] = x

has_list_bytes_starting_with(l, s) == \E i \in 1..Len(l) : StartsWith(s, l[i])


(***************************************************************************)
(* The network: what requests.get can give back.  A reply is either a      *)
(* response (status code and body) or a raised requests exception          *)
(* (net = "error": connection refused, DNS failure, timeout).  A JSON body *)
(* is modelled by its parse: fmt = "json" parses, fmt = "text" makes       *)
(* json.loads raise.                                                       *)
(***************************************************************************)
Missing == "-"
UUIDs == {"U1", "U2"}

Reply(status, body) == [net |-> "ok", status |-> status, body |-> body]
\* requests.get raised instead of returning a response
NetError(body) == [net |-> "error", status |-> 0, body |-> body]

\* api.mojang.com/users/profiles/minecraft/<username>
UuidBodies ==
    {[fmt |-> "json", id |-> u] : u \in UUIDs}
        \cup {[fmt |-> "json", id |-> Missing], [fmt |-> "text", id |-> Missing]}
UuidResponses ==
    {Reply(OK, b) : b \in UuidBodies}
        \cup {Reply(404, [fmt |-> "text", id |-> Missing])}

\* sessionserver.mojang.com/session/minecraft/profile/<uuid>; subtypes are the
\* keys of the decoded 'textures' property, hasTextures whether it is there
ProfileBodies ==
    {[fmt |-> "json", hasTextures |-> TRUE, subtypes |-> s] :
        s \in {{"SKIN", "CAPE"}, {"SKIN"}}}
        \cup {[fmt |-> "json", hasTextures |-> FALSE, subtypes |-> {}],
              [fmt |-> "text", hasTextures |-> FALSE, subtypes |-> {}]}
ProfileResponses ==
    {Reply(OK, b) : b \in ProfileBodies}
        \cup {Reply(404, [fmt |-> "text", hasTextures |-> FALSE, subtypes |-> {}])}

\* the texture image behind textures['textures'][subtype]['url']
PNG == <<"PNG">>
TextureReplies ==
    {Reply(OK, PNG), Reply(404, <<>>), NetError(<<>>)}

\* an outbound GET, as recorded by the model: got is "ok" when a response came
\* back (with the status recorded) and "error" when requests.get raised
Call(api, key, reply) ==
    [api |-> api, key |-> key, got |-> reply.net, status |-> reply.status]

\* the result of a Python call: the value returned, or the exception raised
Return(v)  == [exc |-> "none", value |-> v]
Raise(e, v) == [exc |-> e, value |-> v]

\* d[k] = v on a dict
Put(d, k, v) == [x \in DOMAIN d \cup {k} |-> IF x = k THEN v ELSE d[x]]
EmptyDict == [x \in {} |-> Missing]

(***************************************************************************)
(* get_mc_uuid_from_username: every outcome the call can have from cache   *)
(* `cache`: the result, the cache afterwards, the outbound calls issued.   *)
(***************************************************************************)
UuidResult(resp) ==
    IF resp.status = OK
    THEN IF resp.body.fmt = "json" /\ resp.body.id # Missing
         THEN Return(resp.body.id)
         ELSE Raise("Exception", Missing)
    ELSE Raise("RuntimeError", Missing)

\* get_mc_uuid_from_username caching only the successful responses
get_mc_uuid_from_username_ok_only(cache, username) ==
    IF username \in DOMAIN cache
    THEN {[res |-> UuidResult(cache[username]), cache |-> cache, calls |-> <<>>]}
    ELSE {[res   |-> UuidResult(r),
           cache |-> IF r.status = OK THEN Put(cache, username, r) ELSE cache,
           calls |-> <<Call("uuid", username, r)>>] : r \in UuidResponses}
         \cup {[res   |-> Raise("Exception", Missing),
                cache |-> cache,
                calls |-> <<Call("uuid", username, NetError(<<>>))>>]}

get_mc_uuid_from_username(cache, username) ==
    IF username \in DOMAIN cache
    THEN {[res |-> UuidResult(cache[username]), cache |-> cache, calls |-> <<>>]}
    ELSE {[res   |-> UuidResult(r),
           cache |-> Put(cache, username, r),
           calls |-> <<Call("uuid", username, r)>>] : r \in UuidResponses}
         \cup {[res   |-> Raise("Exception", Missing),
                cache |-> cache,
                calls |-> <<Call("uuid", username, NetError(<<>>))>>]}

(***************************************************************************)
(* get_mc_profile_from_uuid                                                *)
(***************************************************************************)
NoProfile == [fmt |-> "text", hasTextures |-> FALSE, subtypes |-> {}]

ProfileResult(resp) ==
    IF resp.status = OK
    THEN IF resp.body.fmt = "json"
         THEN Return(resp.body)
         ELSE Raise("Exception", NoProfile)
    ELSE Raise("RuntimeError", NoProfile)

\* get_mc_profile_from_uuid caching only the successful responses
get_mc_profile_from_uuid_ok_only(cache, uuid) ==
    IF uuid \in DOMAIN cache
    THEN {[res |-> ProfileResult(cache[uuid]), cache |-> cache, calls |-> <<>>]}
    ELSE {[res   |-> ProfileResult(r),
           cache |-> IF r.status = OK THEN Put(cache, uuid, r) ELSE cache,
           calls |-> <<Call("profile", <<uuid>>, r)>>] : r \in ProfileResponses}
         \cup {[res   |-> Raise("Exception", NoProfile),
                cache |-> cache,
                calls |-> <<Call("profile", <<uuid>>, NetError(<<>>))>>]}

get_mc_profile_from_uuid(cache, uuid) ==
    IF uuid \in DOMAIN cache
    THEN {[res |-> ProfileResult(cache[uuid]), cache |-> cache, calls |-> <<>>]}
    ELSE {[res   |-> ProfileResult(r),
           cache |-> Put(cache, uuid, r),
           calls |-> <<Call("profile", <<uuid>>, r)>>] : r \in ProfileResponses}
         \cup {[res   |-> Raise("Exception", NoProfile),
                cache |-> cache,
                calls |-> <<Call("profile", <<uuid>>, NetError(<<>>))>>]}

(***************************************************************************)
(* get_mc_player_textures_from_uuid: the decoded 'textures' property, as   *)
(* the set of subtypes it holds.                                           *)
(***************************************************************************)
get_mc_player_textures_from_uuid(cache, uuid) ==
    {[res   |-> IF o.res.exc # "none" THEN Raise(o.res.exc, {})
                ELSE IF o.res.value.hasTextures THEN Return(o.res.value.subtypes)
                ELSE Raise("RuntimeError", {}),
      cache |-> o.cache,
      calls |-> o.calls] : o \in get_mc_profile_from_uuid(cache, uuid)}

(***************************************************************************)
(* get_mc_player_skin_from_uuid                                            *)
(***************************************************************************)
SkinResult(reply) ==
    IF reply.net = "error" THEN Raise("Exception", <<>>)
    ELSE IF reply.status = OK THEN Return(reply.body)
    ELSE Raise("RuntimeError", <<>>)

\* get_mc_player_skin_from_uuid fetching an image whether or not the textures
\* hold the subtype
get_mc_player_skin_from_uuid_any_subtype(cache, uuid, subtype) ==
    UNION {
        IF o.res.exc # "none"
        THEN {[res |-> Raise(o.res.exc, <<>>), cache |-> o.cache, calls |-> o.calls]}
        ELSE {[res   |-> SkinResult(reply),
               cache |-> o.cache,
               calls |-> o.calls \o <<Call("texture", <<uuid, subtype>>, reply)>>] :
                 reply \in TextureReplies}
        : o \in get_mc_player_textures_from_uuid(cache, uuid)}

get_mc_player_skin_from_uuid(cache, uuid, subtype) ==
    UNION {
        IF o.res.exc # "none"
        THEN {[res |-> Raise(o.res.exc, <<>>), cache |-> o.cache, calls |-> o.calls]}
        ELSE IF subtype \notin o.res.value
        THEN {[res |-> Raise("Exception", <<>>), cache |-> o.cache, calls |-> o.calls]}
        ELSE {[res   |-> SkinResult(reply),
               cache |-> o.cache,
               calls |-> o.calls \o <<Call("texture", <<uuid, subtype>>, reply)>>] :
                 reply \in TextureReplies}
        : o \in get_mc_player_textures_from_uuid(cache, uuid)}

(***************************************************************************)
(* The resource manifest.  pre-1.6.json is a sequence of at most one       *)
(* body: <<>> when the file does not exist.  An asset index is the ordered *)
(* 'objects' mapping, a sequence of [name, size].                          *)
(***************************************************************************)
Name_a == <<"a", ".", "t", "x", "t">>
Name_b == <<"b", ".", "t", "x", "t">>

Index(objs) == [fmt |-> "json", hasObjects |-> TRUE, objects |-> objs]
AssetBodies ==
    {Index(<<[name |-> Name_a, size |-> 10], [name |-> Name_b, size |-> 20]>>),
     Index(<<[name |-> Name_b, size |-> 5]>>),
     [fmt |-> "json", hasObjects |-> FALSE, objects |-> <<>>],
     [fmt |-> "text", hasObjects |-> FALSE, objects |-> <<>>]}
NoIndex == [fmt |-> "text", hasObjects |-> FALSE, objects |-> <<>>]

\* version_manifest.json: url is the old_alpha version's url, Missing if no
\* version has that type
VersionManifestReplies ==
    {Reply(OK, [fmt |-> "json", url |-> "PKG"]),
     Reply(OK, [fmt |-> "json", url |-> Missing]),
     Reply(OK, [fmt |-> "text", url |-> Missing]),
     Reply(404, [fmt |-> "text", url |-> Missing]),
     NetError([fmt |-> "text", url |-> Missing])}

\* the version descriptor: url is ['assetIndex']['url'], Missing if absent
PackageReplies ==
    {Reply(OK, [fmt |-> "json", url |-> "IDX"]),
     Reply(OK, [fmt |-> "json", url |-> Missing]),
     Reply(OK, [fmt |-> "text", url |-> Missing]),
     Reply(404, [fmt |-> "text", url |-> Missing]),
     NetError([fmt |-> "text", url |-> Missing])}

AssetReplies ==
    {Reply(OK, b) : b \in AssetBodies} \cup {Reply(404, NoIndex), NetError(NoIndex)}

get_mc_old_alpha_package_url ==
    {[res   |-> IF r.net = "error" THEN Raise("Exception", Missing)
                ELSE IF r.status # OK THEN Raise("RuntimeError", Missing)
                ELSE IF r.body.fmt # "json" THEN Raise("Exception", Missing)
                ELSE IF r.body.url = Missing THEN Raise("RuntimeError", Missing)
                ELSE Return(r.body.url),
      calls |-> <<Call("version_manifest", <<>>, r)>>] : r \in VersionManifestReplies}

get_mc_asset_url_from_package_url(url) ==
    {[res   |-> IF r.net = "error" THEN Raise("Exception", Missing)
                ELSE IF r.status # OK THEN Raise("RuntimeError", Missing)
                ELSE IF r.body.fmt # "json" \/ r.body.url = Missing
                     THEN Raise("Exception", Missing)
                ELSE Return(r.body.url),
      calls |-> <<Call("package", <<url>>, r)>>] : r \in PackageReplies}

\* json.load / json.loads of an asset-index text
LoadIndex(body) ==
    IF body.fmt = "json" THEN Return(body) ELSE Raise("Exception", NoIndex)

\* get_mc_resources saving whatever body the third fetch returned, 200 or not
get_mc_resources_save_any_status(file) ==
    IF file # <<>>
    THEN {[res |-> LoadIndex(file[1]), file |-> file, calls |-> <<>>]}
    ELSE UNION {
        IF o1.res.exc # "none"
        THEN {[res |-> Raise(o1.res.exc, NoIndex), file |-> file, calls |-> o1.calls]}
        ELSE UNION {
            IF o2.res.exc # "none"
            THEN {[res |-> Raise(o2.res.exc, NoIndex), file |-> file,
                   calls |-> o1.calls \o o2.calls]}
            ELSE {[res   |-> IF r.net = "error" THEN Raise("Exception", NoIndex)
                             ELSE IF r.status = OK THEN LoadIndex(r.body)
                             ELSE Raise("RuntimeError", NoIndex),
                   file  |-> IF r.net = "ok" THEN <<r.body>> ELSE file,
                   calls |-> o1.calls \o o2.calls
                               \o <<Call("asset_index", <<o2.res.value>>, r)>>] :
                     r \in AssetReplies}
            : o2 \in get_mc_asset_url_from_package_url(o1.res.value)}
        : o1 \in get_mc_old_alpha_package_url}

\* get_mc_resources downloading the index whether or not the file exists
get_mc_resources_refetch(file) ==
    UNION {
        IF o1.res.exc # "none"
        THEN {[res |-> Raise(o1.res.exc, NoIndex), file |-> file, calls |-> o1.calls]}
        ELSE UNION {
            IF o2.res.exc # "none"
            THEN {[res |-> Raise(o2.res.exc, NoIndex), file |-> file,
                   calls |-> o1.calls \o o2.calls]}
            ELSE {[res   |-> IF r.net = "error" THEN Raise("Exception", NoIndex)
                             ELSE IF r.status = OK THEN LoadIndex(r.body)
                             ELSE Raise("RuntimeError", NoIndex),
                   file  |-> IF r.net = "ok" /\ r.status = OK THEN <<r.body>> ELSE file,
                   calls |-> o1.calls \o o2.calls
                               \o <<Call("asset_index", <<o2.res.value>>, r)>>] :
                     r \in AssetReplies}
            : o2 \in get_mc_asset_url_from_package_url(o1.res.value)}
        : o1 \in get_mc_old_alpha_package_url}

get_mc_resources(file) ==
    IF file # <<>>
    THEN {[res |-> LoadIndex(file[1]), file |-> file, calls |-> <<>>]}
    ELSE UNION {
        IF o1.res.exc # "none"
        THEN {[res |-> Raise(o1.res.exc, NoIndex), file |-> file, calls |-> o1.calls]}
        ELSE UNION {
            IF o2.res.exc # "none"
            THEN {[res |-> Raise(o2.res.exc, NoIndex), file |-> file,
                   calls |-> o1.calls \o o2.calls]}
            ELSE {[res   |-> IF r.net = "error" THEN Raise("Exception", NoIndex)
                             ELSE IF r.status = OK THEN LoadIndex(r.body)
                             ELSE Raise("RuntimeError", NoIndex),
                   file  |-> IF r.net = "ok" /\ r.status = OK THEN <<r.body>> ELSE file,
                   calls |-> o1.calls \o o2.calls
                               \o <<Call("asset_index", <<o2.res.value>>, r)>>] :
                     r \in AssetReplies}
            : o2 \in get_mc_asset_url_from_package_url(o1.res.value)}
        : o1 \in get_mc_old_alpha_package_url}

(***************************************************************************)
(* convert_mc_resources_to_old_format: '{},{},0'.format(name, size) per    *)
(* entry, joined by '\n'.                                                  *)
(***************************************************************************)
DigitChar(d) == <<"0", "1", "2", "3", "4", "5", "6", "7", "8", "9">>[d + 1]

RECURSIVE Digits(_)
Digits(n) ==
    IF n < 10 THEN <<DigitChar(n)>>
    ELSE Digits(n \div 10) \o <<DigitChar(n % 10)>>

FormatEntry(e) == e.name \o <<",">> \o Digits(e.size) \o <<",", "0">>

RECURSIVE Join(_, _)
Join(sep, lines) ==
    IF lines = <<>> THEN <<>>
    ELSE IF Len(lines) = 1 THEN lines[1]
    ELSE lines[1] \o sep \o Join(sep, Tail(lines))

\* convert_mc_resources_to_old_format ending every record with a newline
\* instead of joining the records
convert_mc_resources_to_old_format_terminated(res) ==
    IF ~res.hasObjects THEN Raise("Exception", <<>>)
    ELSE Return(Join(<<>>,
                     [i \in 1..Len(res.objects) |->
                        FormatEntry(res.objects[i]) \o <<"\n">>]))

convert_mc_resources_to_old_format(resources) ==
    IF ~resources.hasObjects THEN Raise("Exception", <<>>)
    ELSE Return(Join(<<"\n">>,
                     [i \in 1..Len(resources.objects) |->
                        FormatEntry(resources.objects[i])]))

(***************************************************************************)
(* The plugin.  st is the module state a handler can touch: the two        *)
(* response caches and pre-1.6.json.  A handler yields the set of its      *)
(* possible effects: the state afterwards, the outbound calls it issued,   *)
(* the responses it queued to the client, what it printed, and the         *)
(* exception it let through (exc).                                         *)
(***************************************************************************)
\* one line written by print()
Stdout(msg, arg) == [msg |-> msg, arg |-> arg]

ConnectionClose == [Connection |-> "close"]
build_http_response(status_code, body, headers) ==
    [status_code |-> status_code, body |-> body, headers |-> headers]

\* handle_mc_auth answering without the Connection: close header
handle_mc_auth_keep_alive(st) ==
    {[ucache |-> st.ucache, pcache |-> st.pcache, file |-> st.file,
      calls |-> <<>>,
      queued |-> <<build_http_response(200, <<"0">>, [Connection |-> "keep-alive"])>>,
      printed |-> <<Stdout("Authentication requested", <<>>)>>,
      exc |-> "none"]}

handle_mc_auth(st) ==
    {[ucache |-> st.ucache, pcache |-> st.pcache, file |-> st.file,
      calls |-> <<>>,
      queued |-> <<build_http_response(200, <<"0">>, ConnectionClose)>>,
      printed |-> <<Stdout("Authentication requested", <<>>)>>,
      exc |-> "none"]}

\* the username named by the path: after the last '/' up to the first '.'
\* (not query), or after the last '=' (query)
ExtractUsername(path, query) ==
    IF ~query
    THEN Slice(path, RFind(path, "/") + 1, Find(path, "."))
    ELSE SliceFrom(path, RFind(path, "=") + 1)

\* the try block of handle_mc_skin
SkinChain(st, username, subtype) ==
    UNION {
        IF o1.res.exc # "none"
        THEN {[ucache |-> o1.cache, pcache |-> st.pcache, calls |-> o1.calls,
               queued |-> <<>>, printed |-> <<>>, exc |-> o1.res.exc]}
        ELSE {[ucache |-> o1.cache, pcache |-> o2.cache,
               calls  |-> o1.calls \o o2.calls,
               queued |-> IF o2.res.exc = "none"
                          THEN <<build_http_response(200, o2.res.value, ConnectionClose)>>
                          ELSE <<>>,
               printed |-> <<Stdout("Got player UUID", <<o1.res.value>>)>>,
               exc    |-> o2.res.exc] :
                 o2 \in get_mc_player_skin_from_uuid(st.pcache, o1.res.value, subtype)}
        : o1 \in get_mc_uuid_from_username(st.ucache, username)}

\* handle_mc_skin without its second except clause: only RuntimeError is caught
handle_mc_skin_runtime_only(st, path, cloak, query) ==
    LET subtype  == IF ~cloak THEN "SKIN" ELSE "CAPE"
        username == ExtractUsername(path, query)
        first    == IF ~cloak THEN Stdout("Skin requested", path)
                    ELSE Stdout("Cloak requested", path)
    IN {[ucache |-> c.ucache, pcache |-> c.pcache, file |-> st.file,
         calls |-> c.calls, queued |-> c.queued,
         printed |-> <<first, Stdout("Got player", username)>> \o c.printed \o
                     (IF c.exc = "RuntimeError"
                      THEN <<Stdout("RuntimeError while getting player skin", <<>>)>>
                      ELSE <<>>),
         exc |-> IF c.exc = "RuntimeError" THEN "none" ELSE c.exc] :
           c \in SkinChain(st, username, subtype)}

\* handle_mc_skin choosing the subtype by the extraction mode, not by cloak
handle_mc_skin_subtype_by_query(st, path, cloak, query) ==
    LET subtype  == IF ~query THEN "SKIN" ELSE "CAPE"
        username == ExtractUsername(path, query)
        first    == IF ~cloak THEN Stdout("Skin requested", path)
                    ELSE Stdout("Cloak requested", path)
    IN {[ucache |-> c.ucache, pcache |-> c.pcache, file |-> st.file,
         calls |-> c.calls, queued |-> c.queued,
         printed |-> <<first, Stdout("Got player", username)>> \o c.printed \o
                     (IF c.exc = "RuntimeError"
                      THEN <<Stdout("RuntimeError while getting player skin", <<>>)>>
                      ELSE IF c.exc # "none"
                      THEN <<Stdout("Exception while getting player skin", <<>>)>>
                      ELSE <<>>),
         exc |-> "none"] : c \in SkinChain(st, username, subtype)}

handle_mc_skin(st, path, cloak, query) ==
    LET subtype  == IF ~cloak THEN "SKIN" ELSE "CAPE"
        username == ExtractUsername(path, query)
        first    == IF ~cloak THEN Stdout("Skin requested", path)
                    ELSE Stdout("Cloak requested", path)
    IN {[ucache |-> c.ucache, pcache |-> c.pcache, file |-> st.file,
         calls |-> c.calls, queued |-> c.queued,
         printed |-> <<first, Stdout("Got player", username)>> \o c.printed \o
                     (IF c.exc = "RuntimeError"
                      THEN <<Stdout("RuntimeError while getting player skin", <<>>)>>
                      ELSE IF c.exc # "none"
                      THEN <<Stdout("Exception while getting player skin", <<>>)>>
                      ELSE <<>>),
         exc |-> "none"] : c \in SkinChain(st, username, subtype)}

\* the try block of handle_mc_res
ResChain(st) ==
    {LET conv == IF o.res.exc = "none"
                 THEN convert_mc_resources_to_old_format(o.res.value)
                 ELSE Raise(o.res.exc, <<>>)
     IN [file |-> o.file, calls |-> o.calls,
         queued |-> IF conv.exc = "none"
                    THEN <<build_http_response(200, conv.value, ConnectionClose)>>
                    ELSE <<>>,
         exc |-> conv.exc] : o \in get_mc_resources(st.file)}

\* handle_mc_res testing the path with startswith instead of ==
handle_mc_res_prefix(st, path) ==
    IF StartsWith(path, P_RESOURCES)
    THEN {[ucache |-> st.ucache, pcache |-> st.pcache, file |-> c.file,
           calls |-> c.calls, queued |-> c.queued,
           printed |-> <<Stdout("Resources requested", path)>> \o
                       (IF c.exc = "RuntimeError"
                        THEN <<Stdout("RuntimeError while getting resources", <<>>)>>
                        ELSE IF c.exc # "none"
                        THEN <<Stdout("Exception while getting resources", <<>>)>>
                        ELSE <<>>),
           exc |-> "none"] : c \in ResChain(st)}
    ELSE {[ucache |-> st.ucache, pcache |-> st.pcache, file |-> st.file,
           calls |-> <<>>, queued |-> <<>>,
           printed |-> <<Stdout("Resources requested", path)>>,
           exc |-> "none"]}

handle_mc_res(st, path) ==
    IF path = P_RESOURCES
    THEN {[ucache |-> st.ucache, pcache |-> st.pcache, file |-> c.file,
           calls |-> c.calls, queued |-> c.queued,
           printed |-> <<Stdout("Resources requested", path)>> \o
                       (IF c.exc = "RuntimeError"
                        THEN <<Stdout("RuntimeError while getting resources", <<>>)>>
                        ELSE IF c.exc # "none"
                        THEN <<Stdout("Exception while getting resources", <<>>)>>
                        ELSE <<>>),
           exc |-> "none"] : c \in ResChain(st)}
    ELSE {[ucache |-> st.ucache, pcache |-> st.pcache, file |-> st.file,
           calls |-> <<>>, queued |-> <<>>,
           printed |-> <<Stdout("Resources requested", path),
                         Stdout("Individual resource passthrough is not currently supported!",
                               <<>>)>>,
           exc |-> "none"]}

\* handle_mc_listmaps with one field too few in the empty list
handle_mc_listmaps_short(st) ==
    {[ucache |-> st.ucache, pcache |-> st.pcache, file |-> st.file,
      calls |-> <<>>,
      queued |-> <<build_http_response(200, <<"-", ";", "-", ";", "-", ";", "-">>,
                                       ConnectionClose)>>,
      printed |-> <<>>,
      exc |-> "none"]}

handle_mc_listmaps(st) ==
    {[ucache |-> st.ucache, pcache |-> st.pcache, file |-> st.file,
      calls |-> <<>>,
      queued |-> <<build_http_response(200, <<"-", ";", "-", ";", "-", ";", "-", ";", "-">>,
                                       ConnectionClose)>>,
      printed |-> <<>>,
      exc |-> "none"]}

\* handle_minecraft_request taking every path under /cloak/ for a cloak request
handle_minecraft_request_any_cloak(st, path) ==
    LET handled ==
          IF StartsWith(path, P_GAME) THEN handle_mc_auth(st)
          ELSE IF StartsWith(path, P_SKIN) \/ StartsWith(path, P_MCSKINS)
          THEN handle_mc_skin(st, path, FALSE, FALSE)
          ELSE IF StartsWith(path, P_CLOAK) \/ StartsWith(path, P_MCCLOAKS)
          THEN handle_mc_skin(st, path, TRUE, ~StartsWith(path, P_MCCLOAKS))
          ELSE IF StartsWith(path, P_RESOURCES) THEN handle_mc_res(st, path)
          ELSE IF StartsWith(path, P_LISTMAPS) THEN handle_mc_listmaps(st)
          ELSE {[ucache |-> st.ucache, pcache |-> st.pcache, file |-> st.file,
                 calls |-> <<>>, queued |-> <<>>,
                 printed |-> <<Stdout("No handler found for endpoint", path)>>,
                 exc |-> "none"]}
    IN {[e EXCEPT !.printed = <<Stdout("Handling request for", path)>> \o @] : e \in handled}

handle_minecraft_request(st, path) ==
    LET handled ==
          IF StartsWith(path, P_GAME) THEN handle_mc_auth(st)
          ELSE IF StartsWith(path, P_SKIN) \/ StartsWith(path, P_MCSKINS)
          THEN handle_mc_skin(st, path, FALSE, FALSE)
          ELSE IF StartsWith(path, P_CLOAKQUERY) \/ StartsWith(path, P_MCCLOAKS)
          THEN handle_mc_skin(st, path, TRUE, ~StartsWith(path, P_MCCLOAKS))
          ELSE IF StartsWith(path, P_RESOURCES) THEN handle_mc_res(st, path)
          ELSE IF StartsWith(path, P_LISTMAPS) THEN handle_mc_listmaps(st)
          ELSE {[ucache |-> st.ucache, pcache |-> st.pcache, file |-> st.file,
                 calls |-> <<>>, queued |-> <<>>,
                 printed |-> <<Stdout("No handler found for endpoint", path)>>,
                 exc |-> "none"]}
    IN {[e EXCEPT !.printed = <<Stdout("Handling request for", path)>> \o @] : e \in handled}

\* before_upstream_connection testing the host only
before_upstream_connection_host_only(req) ==
    IF InList(PROCESS_HOST, req.host)
    THEN [ret |-> <<>>, printed |-> <<>>]
    ELSE [ret |-> <<req>>, printed |-> <<Stdout("Ignoring request", req.path)>>]

\* ret is the Optional return value: <<>> for None, <<request>> otherwise
before_upstream_connection(req) ==
    IF InList(PROCESS_HOST, req.host)
          /\ has_list_bytes_starting_with(PROCESS_ENDPOINT, req.path)
    THEN [ret |-> <<>>, printed |-> <<>>]
    ELSE [ret |-> <<req>>, printed |-> <<Stdout("Ignoring request", req.path)>>]

\* handle_client_request forwarding only when both tests fail (and for or)
handle_client_request_and(st, req) ==
    IF ~InList(PROCESS_HOST, req.host)
          /\ ~has_list_bytes_starting_with(PROCESS_ENDPOINT, req.path)
    THEN {[ucache |-> st.ucache, pcache |-> st.pcache, file |-> st.file,
           calls |-> <<>>, queued |-> <<>>, printed |-> <<>>, exc |-> "none",
           ret |-> <<req>>]}
    ELSE {[ucache |-> e.ucache, pcache |-> e.pcache, file |-> e.file,
           calls |-> e.calls, queued |-> e.queued, printed |-> e.printed,
           exc |-> e.exc, ret |-> <<>>] : e \in handle_minecraft_request(st, req.path)}

\* handle_client_request without its final return None: the handled request
\* is returned like an ignored one
handle_client_request_no_drop(st, req) ==
    IF ~InList(PROCESS_HOST, req.host)
          \/ ~has_list_bytes_starting_with(PROCESS_ENDPOINT, req.path)
    THEN {[ucache |-> st.ucache, pcache |-> st.pcache, file |-> st.file,
           calls |-> <<>>, queued |-> <<>>, printed |-> <<>>, exc |-> "none",
           ret |-> <<req>>]}
    ELSE {[ucache |-> e.ucache, pcache |-> e.pcache, file |-> e.file,
           calls |-> e.calls, queued |-> e.queued, printed |-> e.printed,
           exc |-> e.exc, ret |-> <<req>>] : e \in handle_minecraft_request(st, req.path)}

\* every effect of the call; ret is the value it returns when exc = "none"
handle_client_request(st, req) ==
    IF ~InList(PROCESS_HOST, req.host)
          \/ ~has_list_bytes_starting_with(PROCESS_ENDPOINT, req.path)
    THEN {[ucache |-> st.ucache, pcache |-> st.pcache, file |-> st.file,
           calls |-> <<>>, queued |-> <<>>, printed |-> <<>>, exc |-> "none",
           ret |-> <<req>>]}
    ELSE {[ucache |-> e.ucache, pcache |-> e.pcache, file |-> e.file,
           calls |-> e.calls, queued |-> e.queued, printed |-> e.printed,
           exc |-> e.exc, ret |-> <<>>] : e \in handle_minecraft_request(st, req.path)}

(***************************************************************************)
(* State.  The proxy framework calls before_upstream_connection and then   *)
(* handle_client_request with each request; request, upstream, ret,        *)
(* raised, queued, calls and printed describe the request being served,    *)
(* the caches and pre-1.6.json live as long as the process (the file       *)
(* longer), issued counts the identity lookups the process has sent.       *)
(***************************************************************************)
VARIABLES
    phase,      \* "start", "connected" (first hook done), "handled" (second hook done)
    request,    \* [host, path]
    upstream,   \* return value of before_upstream_connection
    ret,        \* return value of handle_client_request
    raised,     \* exception that left handle_client_request, "none" if it returned
    queued,     \* responses given to self.client.queue
    calls,      \* outbound calls issued while serving this request, in order
    printed,    \* lines printed while serving this request
    mc_uuid_from_username_response_cache,
    mc_profile_from_uuid_response_cache,
    file,       \* pre-1.6.json
    issued,     \* bag of the identity lookups sent upstream so far
    nreq,       \* requests received so far
    manifest_failures   \* get_mc_resources calls so far that fetched and persisted nothing

\* One call of convert_mc_resources_to_old_format on its own: its argument
\* and, once it has run, its result (<<>> before).
VARIABLES
    resources,
    old_format

plugin_vars == <<phase, request, upstream, ret, raised, queued, calls, printed,
                 mc_uuid_from_username_response_cache,
                 mc_profile_from_uuid_response_cache, file, issued, nreq,
                 manifest_failures>>
convert_vars == <<resources, old_format>>

\* The username extraction of one skin or cloak request on its own: the path
\* requested and, once handle_mc_skin has cut it, the username (<<>> before).
VARIABLES
    request_path,
    username

extract_vars == <<request_path, username>>

\* Lookups running in several connection contexts at once (one thread per
\* connection, all sharing the module's caches and pre-1.6.json).
VARIABLES
    lookup,              \* per context: where its lookup stands
    nlookups,            \* lookups begun so far
    written,             \* the keys some lookup has completed its write for
    begun_before_write,  \* per key, the lookups begun before its first write completed
    first_miss           \* per key, the first lookup that missed and those overlapping it

lookup_vars == <<lookup, nlookups, written, begun_before_write, first_miss>>

vars == <<plugin_vars, convert_vars, extract_vars, lookup_vars>>

\* The requests the clients send: every known prefix, the two query forms and
\* an unknown path, bare and with a tail, and the four ways to ask for Notch.
P_SKINQUERY == P_SKIN \o <<"g","e","t",".","j","s","p","?","u","s","e","r","=">>
Notch == <<"N","o","t","c","h">>
DotPng == <<".","p","n","g">>
Tails == {<<>>, <<"N">>}
Prefixes ==
    {PROCESS_ENDPOINT[i] : i \in 1..Len(PROCESS_ENDPOINT)}
        \cup {P_CLOAKQUERY, P_SKINQUERY, <<"/">>}
NotchPaths ==
    {P_SKINQUERY \o Notch, P_CLOAKQUERY \o Notch,
     P_MCSKINS \o Notch \o DotPng, P_MCCLOAKS \o Notch \o DotPng}
Paths == {p \o t : p \in Prefixes, t \in Tails} \cup NotchPaths
Hosts == {PROCESS_HOST[i] : i \in 1..Len(PROCESS_HOST)} \cup {"example.com"}
Requests == {[host |-> h, path |-> p] : h \in Hosts, p \in Paths}

NoRequest == [host |-> "", path |-> <<>>]

BagAdd(b, e) ==
    [x \in DOMAIN b \cup {e} |->
        IF x = e THEN (IF e \in DOMAIN b THEN b[e] ELSE 0) + 1 ELSE b[x]]

RECURSIVE BagAddAll(_, _)
BagAddAll(b, seq) ==
    IF seq = <<>> THEN b ELSE BagAddAll(BagAdd(b, Head(seq)), Tail(seq))

IsIdentityCall(c) == c.api \in {"uuid", "profile"}


\* the process has started and no request has come yet
PluginStart ==
    /\ phase = "start"
    /\ request = NoRequest
    /\ upstream = <<>>
    /\ ret = <<>>
    /\ raised = "none"
    /\ queued = <<>>
    /\ calls = <<>>
    /\ printed = <<>>
    /\ mc_uuid_from_username_response_cache = EmptyDict
    /\ mc_profile_from_uuid_response_cache = EmptyDict
    /\ file = <<>>
    /\ issued = <<>>
    /\ nreq = 0
    /\ manifest_failures = 0

\* no call of the converter, no extraction under study
ConvertIdle == resources = NoIndex /\ old_format = <<>>
ExtractIdle == request_path = <<>> /\ username = <<>>

\* the lookups a context can make: a username, a UUID, the manifest
LookupKeys ==
    {[api |-> "uuid", key |-> Notch],
     [api |-> "profile", key |-> <<"U1">>],
     [api |-> "manifest", key |-> <<>>]}

\* two connection contexts
Contexts == {1, 2}

NoLookup == [pc |-> "idle", api |-> "", key |-> <<>>, resp |-> <<>>, late |-> FALSE]
NoMiss == [ctx |-> 0, active |-> FALSE, overlapped |-> 0]

\* no lookup has begun in any context
LookupIdle ==
    /\ lookup = [c \in Contexts |-> NoLookup]
    /\ nlookups = 0
    /\ written = {}
    /\ begun_before_write = [k \in LookupKeys |-> 0]
    /\ first_miss = [k \in LookupKeys |-> NoMiss]

Init ==
    /\ PluginStart
    /\ ConvertIdle
    /\ ExtractIdle
    /\ LookupIdle

BeforeUpstreamConnection(req) ==
    /\ phase \in {"start", "handled"}
    /\ nreq < MaxRequests
    /\ LET r == before_upstream_connection(req)
       IN /\ request' = req
          /\ upstream' = r.ret
          /\ printed' = r.printed
    /\ phase' = "connected"
    /\ nreq' = nreq + 1
    /\ ret' = <<>>
    /\ raised' = "none"
    /\ queued' = <<>>
    /\ calls' = <<>>
    /\ UNCHANGED <<mc_uuid_from_username_response_cache,
                   mc_profile_from_uuid_response_cache, file, issued,
                   manifest_failures>>
    /\ UNCHANGED <<convert_vars, extract_vars, lookup_vars>>

HandleClientRequest ==
    /\ phase = "connected"
    /\ \E e \in handle_client_request(
                    [ucache |-> mc_uuid_from_username_response_cache,
                     pcache |-> mc_profile_from_uuid_response_cache,
                     file   |-> file], request) :
          /\ mc_uuid_from_username_response_cache' = e.ucache
          /\ mc_profile_from_uuid_response_cache' = e.pcache
          /\ file' = e.file
          /\ calls' = e.calls
          /\ queued' = e.queued
          /\ printed' = printed \o e.printed
          /\ raised' = e.exc
          /\ ret' = IF e.exc = "none" THEN e.ret ELSE <<>>
          /\ issued' = BagAddAll(issued, SelectSeq(e.calls, IsIdentityCall))
          /\ manifest_failures' =
                IF e.calls # <<>> /\ e.calls[1].api = "version_manifest" /\ e.file = <<>>
                THEN manifest_failures + 1
                ELSE manifest_failures
    /\ phase' = "handled"
    /\ UNCHANGED <<request, upstream, nreq>>
    /\ UNCHANGED <<convert_vars, extract_vars, lookup_vars>>

Next ==
    \/ \E req \in Requests : BeforeUpstreamConnection(req)
    \/ HandleClientRequest

Spec == Init /\ [][Next]_vars

(***************************************************************************)
(* convert_mc_resources_to_old_format on its own.  The manifests given to  *)
(* it: an 'objects' mapping of at most MaxEntries entries in every order   *)
(* (a dict has no key twice), and a manifest without 'objects'.            *)
(***************************************************************************)
MaxEntries == 2

Name_c == <<"c">>
Names == {Name_a, Name_b, Name_c}
Sizes == {0, 10, 20, 125}
Entries == {[name |-> n, size |-> z] : n \in Names, z \in Sizes}

RECURSIVE Mappings(_)
Mappings(n) ==
    IF n = 0 THEN {<<>>}
    ELSE LET shorter == Mappings(n - 1)
         IN shorter \cup
            {Append(m, e) : m \in {x \in shorter : Len(x) = n - 1},
                            e \in Entries}

Manifests ==
    {Index(m) : m \in {x \in Mappings(MaxEntries) :
                          \A i, j \in 1..Len(x) : x[i].name = x[j].name => i = j}}
        \cup {[fmt |-> "json", hasObjects |-> FALSE, objects |-> <<>>]}

InitConvert ==
    /\ PluginStart
    /\ ExtractIdle
    /\ LookupIdle
    /\ resources \in Manifests
    /\ old_format = <<>>

Convert ==
    /\ old_format = <<>>
    /\ old_format' = <<convert_mc_resources_to_old_format(resources)>>
    /\ UNCHANGED resources
    /\ UNCHANGED <<plugin_vars, extract_vars, lookup_vars>>

NextConvert == Convert

SpecConvert == InitConvert /\ [][NextConvert]_vars

(***************************************************************************)
(* The username extraction on its own.  The paths requested: one of the    *)
(* two static-file prefixes followed by at most MaxTail characters out of  *)
(* a letter, '.' and '/', or by one of three longer tails naming Notch.    *)
(***************************************************************************)
MaxTail == 4

TailChars == {"N", ".", "/"}

RECURSIVE TailsUpTo(_)
TailsUpTo(n) ==
    IF n = 0 THEN {<<>>}
    ELSE LET shorter == TailsUpTo(n - 1)
         IN shorter \cup
            {Append(t, c) : t \in {x \in shorter : Len(x) = n - 1}, c \in TailChars}

NotchTails ==
    {Notch, Notch \o DotPng, <<"N", ".", "N", "/">> \o Notch \o DotPng}

StaticPaths ==
    {p \o t : p \in {P_MCSKINS, P_MCCLOAKS}, t \in TailsUpTo(MaxTail) \cup NotchTails}

InitExtract ==
    /\ PluginStart
    /\ ConvertIdle
    /\ LookupIdle
    /\ request_path \in StaticPaths
    /\ username = <<>>

\* handle_minecraft_request is given the path; username is what handle_mc_skin
\* prints as the player it got
Extract ==
    /\ username = <<>>
    /\ \E e \in handle_minecraft_request(
                    [ucache |-> mc_uuid_from_username_response_cache,
                     pcache |-> mc_profile_from_uuid_response_cache,
                     file   |-> file], request_path) :
          \E i \in 1..Len(e.printed) :
              /\ e.printed[i].msg = "Got player"
              /\ username' = <<e.printed[i].arg>>
    /\ UNCHANGED request_path
    /\ UNCHANGED <<plugin_vars, convert_vars, lookup_vars>>

NextExtract == Extract

SpecExtract == InitExtract /\ [][NextExtract]_vars

(***************************************************************************)
(* Interleaved lookups.  A lookup is get_mc_uuid_from_username,            *)
(* get_mc_profile_from_uuid or get_mc_resources run in one context; its    *)
(* steps are the places where it touches what the contexts share: the      *)
(* test of the cache (or of the file), the outbound calls, the write.      *)
(***************************************************************************)
MaxLookups == 3

\* the cache test with get_mc_profile_from_uuid never finding its entry
Cached_profile_never(k) ==
    IF k.api = "uuid" THEN k.key \in DOMAIN mc_uuid_from_username_response_cache
    ELSE IF k.api = "profile" THEN FALSE
    ELSE file # <<>>

\* `if username in cache`, `if uuid in cache`, `if os.path.isfile(...)`
Cached(k) ==
    IF k.api = "uuid" THEN k.key \in DOMAIN mc_uuid_from_username_response_cache
    ELSE IF k.api = "profile" THEN k.key[1] \in DOMAIN mc_profile_from_uuid_response_cache
    ELSE file # <<>>

\* what a lookup that missed does before its write: the calls it issues and
\* the response it goes on to write (<<>> when it writes nothing)
Fetched(k) ==
    IF k.api = "uuid"
    THEN {[calls |-> o.calls,
           write |-> IF k.key \in DOMAIN o.cache THEN <<o.cache[k.key]>> ELSE <<>>] :
             o \in get_mc_uuid_from_username(EmptyDict, k.key)}
    ELSE IF k.api = "profile"
    THEN {[calls |-> o.calls,
           write |-> IF k.key[1] \in DOMAIN o.cache THEN <<o.cache[k.key[1]]>> ELSE <<>>] :
             o \in get_mc_profile_from_uuid(EmptyDict, k.key[1])}
    ELSE {[calls |-> o.calls, write |-> o.file] : o \in get_mc_resources(<<>>)}

\* the lookup of context c is over: if it was the first miss of its key,
\* nothing overlaps it any more
Ended(c, k) ==
    [first_miss EXCEPT ![k].active = @ /\ first_miss[k].ctx # c]

InitLookup ==
    /\ PluginStart
    /\ ConvertIdle
    /\ ExtractIdle
    /\ LookupIdle

\* context c enters the lookup of k and tests the cache: on a hit it has its
\* response and is done, on a miss it goes on to the outbound call
BeginLookup(c, k) ==
    /\ lookup[c].pc = "idle"
    /\ nlookups < MaxLookups
    /\ nlookups' = nlookups + 1
    /\ lookup' = [lookup EXCEPT ![c] =
                    IF Cached(k) THEN NoLookup
                    ELSE [pc |-> "miss", api |-> k.api, key |-> k.key,
                          resp |-> <<>>, late |-> k \in written]]
    /\ begun_before_write' =
          IF k \in written THEN begun_before_write
          ELSE [begun_before_write EXCEPT ![k] = @ + 1]
    /\ first_miss' =
          IF first_miss[k].ctx = 0
          THEN IF Cached(k) THEN first_miss
               ELSE [first_miss EXCEPT ![k] = [ctx |-> c, active |-> TRUE, overlapped |-> 1]]
          ELSE IF first_miss[k].active
          THEN [first_miss EXCEPT ![k].overlapped = @ + 1]
          ELSE first_miss
    /\ UNCHANGED <<written, issued, file, mc_uuid_from_username_response_cache,
                   mc_profile_from_uuid_response_cache>>
    /\ UNCHANGED <<phase, request, upstream, ret, raised, queued, calls, printed, nreq,
                   manifest_failures>>
    /\ UNCHANGED <<convert_vars, extract_vars>>

\* requests.get in context c: the call is sent; the lookup ends when there is
\* nothing to write
Get(c) ==
    /\ lookup[c].pc = "miss"
    /\ LET k == [api |-> lookup[c].api, key |-> lookup[c].key]
       IN \E f \in Fetched(k) :
             /\ issued' = BagAddAll(issued, f.calls)
             /\ lookup' = [lookup EXCEPT ![c] =
                             IF f.write = <<>> THEN NoLookup
                             ELSE [@ EXCEPT !.pc = "got", !.resp = f.write]]
             /\ first_miss' = IF f.write = <<>> THEN Ended(c, k) ELSE first_miss
    /\ UNCHANGED <<nlookups, written, begun_before_write, file,
                   mc_uuid_from_username_response_cache,
                   mc_profile_from_uuid_response_cache>>
    /\ UNCHANGED <<phase, request, upstream, ret, raised, queued, calls, printed, nreq,
                   manifest_failures>>
    /\ UNCHANGED <<convert_vars, extract_vars>>

\* cache[key] = response, or pre-1.6.json written, in context c
Write(c) ==
    /\ lookup[c].pc = "got"
    /\ LET k == [api |-> lookup[c].api, key |-> lookup[c].key]
           r == lookup[c].resp[1]
       IN /\ mc_uuid_from_username_response_cache' =
                IF k.api = "uuid" THEN Put(mc_uuid_from_username_response_cache, k.key, r)
                ELSE mc_uuid_from_username_response_cache
          /\ mc_profile_from_uuid_response_cache' =
                IF k.api = "profile"
                THEN Put(mc_profile_from_uuid_response_cache, k.key[1], r)
                ELSE mc_profile_from_uuid_response_cache
          /\ file' = IF k.api = "manifest" THEN <<r>> ELSE file
          /\ written' = written \cup {k}
          /\ first_miss' = Ended(c, k)
    /\ lookup' = [lookup EXCEPT ![c] = NoLookup]
    /\ UNCHANGED <<nlookups, begun_before_write, issued>>
    /\ UNCHANGED <<phase, request, upstream, ret, raised, queued, calls, printed, nreq,
                   manifest_failures>>
    /\ UNCHANGED <<convert_vars, extract_vars>>

NextLookup ==
    \/ \E c \in Contexts, k \in LookupKeys : BeginLookup(c, k)
    \/ \E c \in Contexts : Get(c)
    \/ \E c \in Contexts : Write(c)

SpecLookup == InitLookup /\ [][NextLookup]_vars

(***************************************************************************)
(* Vocabulary of the properties.                                           *)
(***************************************************************************)
HostAllowList == {PROCESS_HOST[i] : i \in 1..Len(PROCESS_HOST)}
PathPrefixTable == {PROCESS_ENDPOINT[i] : i \in 1..Len(PROCESS_ENDPOINT)}

\* the request on an allow-listed host with a path under a known prefix
Matches(req) ==
    /\ req.host \in HostAllowList
    /\ \E p \in PathPrefixTable : StartsWith(req.path, p)

\* handle_client_request has returned for the current request
Handled == phase = "handled"

\* a line with this message was printed while serving the current request
Printed(msg) == \E i \in 1..Len(printed) : printed[i].msg = msg

\* handle_minecraft_request ran for the current request
Dispatched == Printed("Handling request for")

Response(body) ==
    [status_code |-> 200, body |-> body, headers |-> [Connection |-> "close"]]

(***************************************************************************)
(* C1: handle_client_request returns None, having run                      *)
(* handle_minecraft_request, exactly for the requests whose host is in     *)
(* PROCESS_HOST and whose path starts with an entry of PROCESS_ENDPOINT;   *)
(* every other request is returned unmodified and nothing is queued.       *)
(***************************************************************************)
C1_HandledIffHostAndPrefix ==
    Handled =>
        /\ Matches(request) <=> (ret = <<>> /\ raised = "none" /\ Dispatched)
        /\ ~Matches(request) =>
              (ret = <<request>> /\ raised = "none" /\ queued = <<>> /\ ~Dispatched)

\* a matching request was dropped after its handler queued a response
C1_Witness ==
    /\ Handled
    /\ Matches(request)
    /\ ret = <<>>
    /\ Dispatched
    /\ queued # <<>>

RECURSIVE BagSum(_, _)
BagSum(b, S) ==
    IF S = {} THEN 0
    ELSE LET c == CHOOSE x \in S : TRUE IN b[c] + BagSum(b, S \ {c})

\* how many lookups of this kind the process has sent for the key
Issued(api, key, got) ==
    BagSum(issued, {c \in DOMAIN issued : c.api = api /\ c.key = key /\ c.got = got})

\* a lookup of this kind for the key has come back with a non-success status
FailedLookup(api, key) ==
    \E c \in DOMAIN issued :
        c.api = api /\ c.key = key /\ c.got = "ok" /\ c.status # OK

\* the username handle_mc_skin printed for the current request
IsPlayer(player) ==
    \E i \in 1..Len(printed) :
        printed[i].msg = "Got player" /\ printed[i].arg = player

IsSkinPath(p) == StartsWith(p, P_SKIN) \/ StartsWith(p, P_MCSKINS)
IsCloakPath(p) == StartsWith(p, P_CLOAKQUERY) \/ StartsWith(p, P_MCCLOAKS)

\* the substring after the last occurrence of ch
AfterLast(p, ch) == SubSeq(p, RFind(p, ch) + 2, Len(p))

(***************************************************************************)
(* C2 as claimed: the process sends at most one username-to-id call per    *)
(* username and at most one id-to-profile call per UUID.                   *)
(***************************************************************************)
C2_AtMostOneCallPerKey ==
    \A c \in DOMAIN issued :
        Issued(c.api, c.key, "ok") + Issued(c.api, c.key, "error") <= 1

(***************************************************************************)
(* C2 as amended: per username and per UUID at most one call ever gets a   *)
(* response, whatever its status, and once it has, no further call for     *)
(* that key is sent; only a call in which requests.get raised, which       *)
(* caches nothing, can be followed by another call for the same key.       *)
(***************************************************************************)
C2_AtMostOneAnsweredCallPerKey ==
    [][\A c \in DOMAIN issued :
          c.got = "ok" =>
              /\ Issued(c.api, c.key, "ok") = 1
              /\ Issued(c.api, c.key, "ok")' = 1
              /\ Issued(c.api, c.key, "error")' = Issued(c.api, c.key, "error")]_vars

\* a second skin request for a username whose lookup had returned 404 was
\* served from the cache: one call sent in all
C2_Witness ==
    /\ Handled
    /\ nreq = 2
    /\ calls = <<>>
    /\ \E k \in DOMAIN mc_uuid_from_username_response_cache :
          /\ IsPlayer(k)
          /\ mc_uuid_from_username_response_cache[k].status # OK
          /\ Issued("uuid", k, "ok") = 1

(***************************************************************************)
(* C3 as claimed: the username is taken after the last '=' for paths under *)
(* /skin/ and /cloak/get.jsp?user=, and after the last '/' up to the first *)
(* '.' for paths under /MinecraftSkins/ and /MinecraftCloaks/, so that     *)
(* /skin/get.jsp?user=Notch and /MinecraftSkins/Notch.png both give Notch. *)
(***************************************************************************)
C3_ExtractionModePerPrefix ==
    (Handled /\ Matches(request)) =>
        LET p == request.path
        IN /\ ((StartsWith(p, P_SKIN) /\ Find(p, "=") # -1)
                  \/ StartsWith(p, P_CLOAKQUERY))
                  => IsPlayer(AfterLast(p, "="))
           /\ (StartsWith(p, P_MCSKINS) \/ StartsWith(p, P_MCCLOAKS))
                  => IsPlayer(ExtractUsername(p, FALSE))
           /\ p \in {P_SKINQUERY \o Notch, P_MCSKINS \o Notch \o DotPng}
                  => IsPlayer(Notch)

(***************************************************************************)
(* C4 as claimed: when pre-1.6.json exists, get_mc_resources returns its   *)
(* content and issues no outbound call.                                    *)
(***************************************************************************)
C4_PersistedIsReturned ==
    file # <<>> =>
        \A o \in get_mc_resources(file) :
            o.calls = <<>> /\ o.res = Return(file[1])

(***************************************************************************)
(* C4 as amended: once pre-1.6.json exists it is never rewritten, no later *)
(* request issues an outbound manifest call, and a /resources/ request is  *)
(* answered from the file alone: with the legacy text of its content, or   *)
(* with nothing when the content does not parse as JSON or has no objects. *)
(***************************************************************************)
C4_PersistedIsNeverRefetched ==
    [][file # <<>> =>
          /\ file' = file
          /\ (phase = "connected" /\ Matches(request)
                 /\ request.path = P_RESOURCES) =>
                /\ calls' = <<>>
                /\ raised' = "none"
                /\ queued' =
                     IF file[1].fmt = "json" /\ file[1].hasObjects
                     THEN <<Response(convert_mc_resources_to_old_format(file[1]).value)>>
                     ELSE <<>>]_vars

\* the second /resources/ request of a run answered with no outbound call
C4_Witness ==
    /\ Handled
    /\ nreq = 2
    /\ Matches(request)
    /\ request.path = P_RESOURCES
    /\ file # <<>>
    /\ calls = <<>>
    /\ Len(queued) = 1

(***************************************************************************)
(* C5: no call of handle_client_request queues more than one response,     *)
(* and a request that is returned for forwarding has none queued.          *)
(***************************************************************************)
C5_AtMostOneResponse ==
    /\ Len(queued) <= 1
    /\ (Handled /\ ret # <<>>) => queued = <<>>

\* a skin request answered with exactly one response after outbound calls
C5_Witness ==
    /\ Handled
    /\ ret = <<>>
    /\ Len(queued) = 1
    /\ calls # <<>>

\* every step of the current skin or cloak request's chain succeeded: the
\* username's response (cached or fresh) is a 200 with an id, that id's
\* profile response is a 200 whose textures hold the subtype, and the texture
\* image was fetched with a 200
SkinChainSucceeded ==
    LET subtype == IF IsCloakPath(request.path) THEN "CAPE" ELSE "SKIN"
    IN \E k \in DOMAIN mc_uuid_from_username_response_cache :
          LET r1 == mc_uuid_from_username_response_cache[k]
          IN /\ IsPlayer(k)
             /\ r1.status = OK /\ r1.body.fmt = "json" /\ r1.body.id # Missing
             /\ r1.body.id \in DOMAIN mc_profile_from_uuid_response_cache
             /\ LET r2 == mc_profile_from_uuid_response_cache[r1.body.id]
                IN /\ r2.status = OK /\ r2.body.fmt = "json"
                   /\ r2.body.hasTextures /\ subtype \in r2.body.subtypes
             /\ calls # <<>>
             /\ calls[Len(calls)] =
                  [api |-> "texture", key |-> <<r1.body.id, subtype>>,
                   got |-> "ok", status |-> OK]

\* every step of the current /resources/ request's chain succeeded: each
\* outbound call returned 200 and the index, fetched or read, is JSON with an
\* objects mapping
ResChainSucceeded ==
    /\ request.path = P_RESOURCES
    /\ \A i \in 1..Len(calls) : calls[i].got = "ok" /\ calls[i].status = OK
    /\ file # <<>> /\ file[1].fmt = "json" /\ file[1].hasObjects

(***************************************************************************)
(* C6: a skin, cloak or resource-list request whose chain fails at any     *)
(* step gets no response, no exception leaves handle_client_request, and   *)
(* the request is dropped (None is returned), not forwarded.               *)
(***************************************************************************)
C6_FailureIsSilent ==
    (Handled /\ Matches(request)) =>
        /\ (IsSkinPath(request.path) \/ IsCloakPath(request.path)) =>
              /\ raised = "none" /\ ret = <<>>
              /\ ~SkinChainSucceeded => queued = <<>>
        /\ StartsWith(request.path, P_RESOURCES) =>
              /\ raised = "none" /\ ret = <<>>
              /\ ~ResChainSucceeded => queued = <<>>

\* a cloak request whose profile has no CAPE: the KeyError was caught and
\* nothing was queued
C6_Witness ==
    /\ Handled
    /\ Matches(request)
    /\ IsCloakPath(request.path)
    /\ Printed("Exception while getting player skin")
    /\ Len(calls) = 2
    /\ calls[2].api = "profile" /\ calls[2].status = OK
    /\ queued = <<>>
    /\ ret = <<>>

(***************************************************************************)
(* C7: once a username's (or a UUID's) lookup has returned a non-success   *)
(* status, the cached response is never removed or replaced, and every     *)
(* later skin or cloak request for that key ends in the same RuntimeError: *)
(* no response, and no further identity call for that key.                 *)
(***************************************************************************)
C7_CachedFailureIsPermanent ==
    [][/\ \A c \in DOMAIN issued :
            (c.api = "uuid" /\ FailedLookup("uuid", c.key)) =>
                LET k == c.key
                IN /\ k \in DOMAIN mc_uuid_from_username_response_cache
                   /\ mc_uuid_from_username_response_cache[k].status # OK
                   /\ k \in DOMAIN mc_uuid_from_username_response_cache'
                   /\ mc_uuid_from_username_response_cache'[k]
                        = mc_uuid_from_username_response_cache[k]
                   /\ (phase = "connected" /\ IsPlayer(k)') =>
                         /\ queued' = <<>>
                         /\ Printed("RuntimeError while getting player skin")'
                         /\ \A i \in 1..Len(calls') :
                               ~(calls'[i].api = "uuid" /\ calls'[i].key = k)
       /\ \A c \in DOMAIN issued :
            (c.api = "profile" /\ FailedLookup("profile", c.key)) =>
                LET u == c.key[1]
                IN /\ u \in DOMAIN mc_profile_from_uuid_response_cache
                   /\ mc_profile_from_uuid_response_cache[u].status # OK
                   /\ u \in DOMAIN mc_profile_from_uuid_response_cache'
                   /\ mc_profile_from_uuid_response_cache'[u]
                        = mc_profile_from_uuid_response_cache[u]
                   /\ (phase = "connected"
                          /\ \E i \in 1..Len(printed') :
                                /\ printed'[i].msg = "Got player UUID"
                                /\ printed'[i].arg = <<u>>) =>
                         /\ queued' = <<>>
                         /\ Printed("RuntimeError while getting player skin")'
                         /\ \A i \in 1..Len(calls') :
                               ~(calls'[i].api = "profile" /\ calls'[i].key = <<u>>)
      ]_vars

\* a later request for a player whose profile lookup had returned 404: no
\* call for the profile, no response
C7_Witness ==
    /\ Handled
    /\ nreq = 2
    /\ queued = <<>>
    /\ Printed("RuntimeError while getting player skin")
    /\ \E u \in DOMAIN mc_profile_from_uuid_response_cache :
          /\ FailedLookup("profile", <<u>>)
          /\ \E i \in 1..Len(printed) :
                printed[i].msg = "Got player UUID" /\ printed[i].arg = <<u>>
          /\ \A i \in 1..Len(calls) : calls[i].api # "profile"

(***************************************************************************)
(* C8: on an allow-listed host the exact path /resources/ runs             *)
(* get_mc_resources and, when that and the conversion succeed, gets one    *)
(* 200 response with the legacy text; any longer path under /resources/    *)
(* gets no response, issues no outbound call and leaves pre-1.6.json       *)
(* untouched.                                                              *)
(***************************************************************************)
C8_OnlyExactResourcesPath ==
    [][(phase = "connected" /\ Matches(request)
           /\ StartsWith(request.path, P_RESOURCES)) =>
          IF request.path = P_RESOURCES
          THEN /\ ~Printed("Individual resource passthrough is not currently supported!")'
               /\ (file = <<>>) => (calls' # <<>> /\ calls'[1].api = "version_manifest")
               /\ (file # <<>>) => (calls' = <<>> /\ file' = file)
               /\ queued' =
                    IF ResChainSucceeded'
                    THEN <<Response(convert_mc_resources_to_old_format(file'[1]).value)>>
                    ELSE <<>>
          ELSE /\ queued' = <<>>
               /\ calls' = <<>>
               /\ file' = file
               /\ Printed("Individual resource passthrough is not currently supported!")'
      ]_vars

\* /resources/N, asked while no manifest was persisted, was left unanswered
C8_Witness ==
    /\ Handled
    /\ Matches(request)
    /\ request.path = P_RESOURCES \o <<"N">>
    /\ queued = <<>>
    /\ calls = <<>>
    /\ file = <<>>

(***************************************************************************)
(* C9: every request on an allow-listed host whose path starts with        *)
(* /game/ gets exactly one response: 200, body "0", Connection: close.     *)
(***************************************************************************)
C9_AuthAlwaysZero ==
    (Handled /\ request.host \in HostAllowList /\ StartsWith(request.path, P_GAME))
        => queued = <<Response(<<"0">>)>>

\* /game/N answered while both caches hold entries
C9_Witness ==
    /\ Handled
    /\ request.host \in HostAllowList
    /\ request.path = P_GAME \o <<"N">>
    /\ queued = <<Response(<<"0">>)>>
    /\ mc_uuid_from_username_response_cache # <<>>
    /\ mc_profile_from_uuid_response_cache # <<>>

(***************************************************************************)
(* C10: every request on an allow-listed host whose path starts with       *)
(* /listmaps.jsp gets exactly one response: 200, body "-;-;-;-;-",         *)
(* Connection: close.                                                      *)
(***************************************************************************)
C10_ListmapsAlwaysEmptyList ==
    (Handled /\ request.host \in HostAllowList /\ StartsWith(request.path, P_LISTMAPS))
        => queued = <<Response(<<"-", ";", "-", ";", "-", ";", "-", ";", "-">>)>>

\* /listmaps.jspN answered with the empty list
C10_Witness ==
    /\ Handled
    /\ request.host \in HostAllowList
    /\ request.path = P_LISTMAPS \o <<"N">>
    /\ Len(queued) = 1
    /\ queued[1].body = <<"-", ";", "-", ";", "-", ";", "-", ";", "-">>

\* str.split(ch): the pieces of s between the occurrences of ch
RECURSIVE SplitOn(_, _)
SplitOn(s, ch) ==
    IF Find(s, ch) = -1 THEN <<s>>
    ELSE <<SubSeq(s, 1, Find(s, ch))>> \o SplitOn(SubSeq(s, Find(s, ch) + 2, Len(s)), ch)

\* the number a decimal numeral denotes, -1 if d is not a numeral as str(int)
\* writes it (digits only, no leading zero)
RECURSIVE NumeralValue(_)
NumeralValue(d) ==
    LET digit(c) == CHOOSE v \in 0..9 : DigitChar(v) = c
    IN IF d = <<>> \/ \E i \in 1..Len(d) : d[i] \notin {DigitChar(v) : v \in 0..9}
       THEN -1
       ELSE IF Len(d) > 1 /\ d[1] = "0" THEN -1
       ELSE IF Len(d) = 1 THEN digit(d[1])
       ELSE LET front == SubSeq(d, 1, Len(d) - 1)
            IN (IF Len(front) = 1 THEN digit(front[1]) ELSE NumeralValue(front)) * 10
                    + digit(d[Len(d)])

\* the manifest of the example: a.txt of size 10, then b.txt of size 20
ExampleManifest ==
    Index(<<[name |-> <<"a", ".", "t", "x", "t">>, size |-> 10],
            [name |-> <<"b", ".", "t", "x", "t">>, size |-> 20]>>)
ExampleText ==
    <<"a", ".", "t", "x", "t", ",", "1", "0", ",", "0", "\n",
      "b", ".", "t", "x", "t", ",", "2", "0", ",", "0">>

(***************************************************************************)
(* C11: for a manifest with an 'objects' mapping the text returned by      *)
(* convert_mc_resources_to_old_format is empty when the mapping is empty,  *)
(* and otherwise splits at newlines into exactly one record per entry, in  *)
(* the mapping's order, the i-th being "<name>,<size>,0" of the i-th       *)
(* entry; so it neither starts nor ends with a newline.  The manifest      *)
(* {a.txt: 10, b.txt: 20} gives "a.txt,10,0\nb.txt,20,0".                  *)
(***************************************************************************)
C11_OneRecordPerEntry ==
    (old_format # <<>> /\ resources.hasObjects) =>
        LET text    == old_format[1].value
            objects == resources.objects
            records == SplitOn(text, "\n")
        IN /\ old_format[1].exc = "none"
           /\ objects = <<>> => text = <<>>
           /\ objects # <<>> =>
                 /\ Len(records) = Len(objects)
                 /\ \A i \in 1..Len(objects) :
                       LET fields == SplitOn(records[i], ",")
                       IN /\ Len(fields) = 3
                          /\ fields[1] = objects[i].name
                          /\ NumeralValue(fields[2]) = objects[i].size
                          /\ fields[3] = <<"0">>
                 /\ text[1] # "\n" /\ text[Len(text)] # "\n"
           /\ resources = ExampleManifest => text = ExampleText

\* the example manifest converted: two records and one newline between them
C11_Witness ==
    /\ resources = ExampleManifest
    /\ old_format = <<Return(ExampleText)>>

\* the subtypes of the texture images fetched by a sequence of outbound calls
TextureSubtypes(cs) ==
    {cs[i].key[2] : i \in {j \in 1..Len(cs) : cs[j].api = "texture"}}

(***************************************************************************)
(* C12: a handled request asks for the CAPE texture exactly when its path  *)
(* starts with /cloak/get.jsp?user= or /MinecraftCloaks/ and for the SKIN  *)
(* texture exactly when it starts with /skin/ or /MinecraftSkins/, and no  *)
(* other request fetches a texture; handle_mc_skin picks the subtype from  *)
(* its cloak argument whatever its query argument is.                      *)
(***************************************************************************)
C12_SubtypeByCloakFlag ==
    /\ (Handled /\ Matches(request)) =>
          /\ IsCloakPath(request.path) =>
                /\ Printed("Cloak requested") /\ ~Printed("Skin requested")
                /\ TextureSubtypes(calls) \subseteq {"CAPE"}
          /\ IsSkinPath(request.path) =>
                /\ Printed("Skin requested") /\ ~Printed("Cloak requested")
                /\ TextureSubtypes(calls) \subseteq {"SKIN"}
          /\ (~IsCloakPath(request.path) /\ ~IsSkinPath(request.path)) =>
                /\ ~Printed("Cloak requested") /\ ~Printed("Skin requested")
                /\ TextureSubtypes(calls) = {}
    /\ (phase = "connected" /\ request.path \in NotchPaths) =>
          \A cloak \in BOOLEAN, query \in BOOLEAN :
              \A e \in handle_mc_skin(
                           [ucache |-> mc_uuid_from_username_response_cache,
                            pcache |-> mc_profile_from_uuid_response_cache,
                            file   |-> file], request.path, cloak, query) :
                  TextureSubtypes(e.calls) \subseteq {IF cloak THEN "CAPE" ELSE "SKIN"}

\* /MinecraftCloaks/Notch.png, whose username is cut path-style, answered
\* with the image fetched as the player's CAPE
C12_Witness ==
    /\ Handled
    /\ Matches(request)
    /\ request.path = P_MCCLOAKS \o Notch \o DotPng
    /\ IsPlayer(Notch)
    /\ TextureSubtypes(calls) = {"CAPE"}
    /\ Len(queued) = 1

\* the final segment of a path: what follows its last '/'
FinalSegment(p) == AfterLast(p, "/")

\* a segment up to, not including, its first '.'; all of it when it has none
UpToFirstDot(seg) ==
    IF Find(seg, ".") = -1 THEN seg ELSE SubSeq(seg, 1, Find(seg, "."))

(***************************************************************************)
(* C13 as claimed: for every path under /MinecraftSkins/ or                *)
(* /MinecraftCloaks/ the username is what follows the last '/' up to, not  *)
(* including, the first '.': the whole final segment when it has no '.',   *)
(* also when a '.' occurs before the last '/'.                             *)
(***************************************************************************)
C13_PathStyleExtraction ==
    username # <<>> => username[1] = UpToFirstDot(FinalSegment(request_path))

\* the upstream URLs a lookup of k calls: one for a username or a UUID, the
\* three hops for the manifest
CallApis(k) ==
    IF k.api = "manifest" THEN {"version_manifest", "package", "asset_index"}
    ELSE {k.api}

\* how many calls of kind a the lookups of k have sent so far
OutboundCalls(k, a) ==
    BagSum(issued, {c \in DOMAIN issued :
                      c.api = a /\ (k.api = "manifest" \/ c.key = k.key)})

UuidOfNotch == [api |-> "uuid", key |-> Notch]

(***************************************************************************)
(* C14 as claimed (its last clause): for every key the number of outbound  *)
(* calls never exceeds the number of lookups that overlapped the first     *)
(* lookup that missed.                                                     *)
(***************************************************************************)
C14_CallsBoundedByFirstMissOverlap ==
    \A k \in LookupKeys : \A a \in CallApis(k) :
        OutboundCalls(k, a) <= first_miss[k].overlapped

(***************************************************************************)
(* C14 as amended: a lookup that begins after some lookup of its key has   *)
(* completed its write never misses, so it issues no outbound call, and    *)
(* for every key the number of calls to any one upstream URL never exceeds *)
(* the number of lookups of the key that began before its first write      *)
(* completed.  (Two lookups that both began before the write may both      *)
(* call: C14_Witness.)                                                     *)
(***************************************************************************)
C14_NoCallOnceWritten ==
    /\ \A c \in Contexts : lookup[c].pc # "idle" => ~lookup[c].late
    /\ \A k \in LookupKeys : \A a \in CallApis(k) :
          OutboundCalls(k, a) <= begun_before_write[k]
    /\ \A k \in written : Cached(k)

\* two contexts both missed Notch and both called, each getting a response;
\* after the writes a third lookup of Notch found the entry and called nothing
C14_Witness ==
    /\ Issued("uuid", Notch, "ok") = 2
    /\ first_miss[UuidOfNotch].overlapped = 2
    /\ UuidOfNotch \in written
    /\ nlookups = 3
    /\ begun_before_write[UuidOfNotch] = 2
    /\ \A k \in LookupKeys \ {UuidOfNotch} : first_miss[k].ctx = 0
    /\ \A c \in Contexts : lookup[c].pc = "idle"

\* the request is on an allow-listed host, under /cloak/, and not of the
\* form /cloak/get.jsp?user=...
BareCloak(req) ==
    /\ req.host \in HostAllowList
    /\ StartsWith(req.path, P_CLOAK)
    /\ ~StartsWith(req.path, P_CLOAKQUERY)

(***************************************************************************)
(* C15: handle_minecraft_request ends in its no-handler branch exactly for *)
(* the requests on an allow-listed host whose path starts with /cloak/ but *)
(* not with /cloak/get.jsp?user=; for each of them                         *)
(* before_upstream_connection returned None, handle_client_request         *)
(* returned None, nothing was queued and no outbound call was made.        *)
(***************************************************************************)
C15_NoHandlerOnlyBareCloak ==
    /\ Handled =>
          (Printed("No handler found for endpoint") <=> BareCloak(request))
    /\ (phase # "start" /\ BareCloak(request)) => upstream = <<>>
    /\ (Handled /\ BareCloak(request)) =>
          /\ ret = <<>> /\ raised = "none"
          /\ queued = <<>>
          /\ calls = <<>>

\* /cloak/N on an allow-listed host: dropped with no reply and no call
C15_Witness ==
    /\ Handled
    /\ request.host \in HostAllowList
    /\ request.path = P_CLOAK \o <<"N">>
    /\ Printed("No handler found for endpoint")
    /\ upstream = <<>> /\ ret = <<>> /\ queued = <<>> /\ calls = <<>>

(***************************************************************************)
(* C16: for every request, before_upstream_connection returned None if    *)
(* and only if handle_client_request returns None; when one returns the    *)
(* request, so does the other, and handle_client_request never raises      *)
(* instead of returning.                                                   *)
(***************************************************************************)
C16_HooksAgree ==
    Handled =>
        /\ raised = "none"
        /\ upstream = <<>> <=> ret = <<>>
        /\ upstream = <<request>> <=> ret = <<request>>
        /\ upstream \in {<<>>, <<request>>}

\* an allow-listed host with a path outside the table: the connection was
\* established and the request forwarded
C16_Witness ==
    /\ Handled
    /\ request.host \in HostAllowList
    /\ request.path = <<"/", "N">>
    /\ upstream = <<request>>
    /\ ret = <<request>>

\* the kinds of the outbound calls of the current request, in order
CallOrder == [i \in 1..Len(calls) |-> calls[i].api]

\* the current request's username lookup gave id u: the response held for the
\* username it printed is a 200 whose JSON has that id
UsernameGave(u) ==
    \E k \in DOMAIN mc_uuid_from_username_response_cache :
        LET r == mc_uuid_from_username_response_cache[k]
        IN IsPlayer(k) /\ r.status = OK /\ r.body.fmt = "json" /\ r.body.id = u

\* the profile held for u is a 200 whose textures hold the subtype
ProfileHolds(u, subtype) ==
    /\ u \in DOMAIN mc_profile_from_uuid_response_cache
    /\ LET r == mc_profile_from_uuid_response_cache[u]
       IN /\ r.status = OK /\ r.body.fmt = "json"
          /\ r.body.hasTextures /\ subtype \in r.body.subtypes

(***************************************************************************)
(* C17: the outbound calls of one skin or cloak request are, in this       *)
(* order and each at most once, the username-to-id call, the id-to-profile *)
(* call and the texture fetch (the first two only when not cached).  A     *)
(* profile call is made only for the id the username lookup gave, a        *)
(* texture fetch only for that id and the requested subtype when the       *)
(* profile's textures hold it, a failed call is the last one, and a        *)
(* response is queued only when the last call is a texture fetch that      *)
(* returned 200: so every answered request has fetched the image, cached   *)
(* identity or not.                                                        *)
(***************************************************************************)
C17_ChainOrder ==
    (Handled /\ Matches(request)
        /\ (IsSkinPath(request.path) \/ IsCloakPath(request.path))) =>
        LET subtype == IF IsCloakPath(request.path) THEN "CAPE" ELSE "SKIN"
        IN /\ CallOrder \in {<<>>, <<"uuid">>, <<"profile">>, <<"texture">>,
                              <<"uuid", "profile">>, <<"uuid", "texture">>,
                              <<"profile", "texture">>,
                              <<"uuid", "profile", "texture">>}
           /\ \A i \in 1..Len(calls) :
                 /\ calls[i].api = "uuid" => IsPlayer(calls[i].key)
                 /\ calls[i].api = "profile" =>
                       /\ Len(calls[i].key) = 1
                       /\ UsernameGave(calls[i].key[1])
                 /\ calls[i].api = "texture" =>
                       /\ Len(calls[i].key) = 2
                       /\ calls[i].key[2] = subtype
                       /\ UsernameGave(calls[i].key[1])
                       /\ ProfileHolds(calls[i].key[1], subtype)
                 /\ (calls[i].got # "ok" \/ calls[i].status # OK) => i = Len(calls)
           /\ queued # <<>> =>
                 /\ queued = <<Response(PNG)>>
                 /\ calls # <<>>
                 /\ calls[Len(calls)].api = "texture"
                 /\ calls[Len(calls)].got = "ok"
                 /\ calls[Len(calls)].status = OK

\* the second request for a player whose id and profile are cached: the only
\* outbound call is the texture fetch, and the image is sent
C17_Witness ==
    /\ Handled
    /\ nreq = 2
    /\ IsPlayer(Notch)
    /\ CallOrder = <<"texture">>
    /\ calls[1].status = OK
    /\ queued = <<Response(PNG)>>

\* the current request is /resources/ on an allow-listed host, about to be
\* given to handle_client_request
ResourcesPending ==
    phase = "connected" /\ Matches(request) /\ request.path = P_RESOURCES

(***************************************************************************)
(* C18: pre-1.6.json comes into existence only in a /resources/ request    *)
(* whose three fetches (version manifest, version descriptor, asset index) *)
(* all returned 200, and then holds the asset-index body received, the one *)
(* the response is made from; a /resources/ request made while the file is *)
(* absent always starts with the version-manifest fetch, whatever happened *)
(* before, and when one of its fetches fails the file stays absent and     *)
(* nothing is queued; once the file exists no request changes it.          *)
(***************************************************************************)
C18_PersistedOnlyOnFullSuccess ==
    [][/\ (file = <<>> /\ file' # <<>>) =>
             /\ ResourcesPending
             /\ CallOrder' = <<"version_manifest", "package", "asset_index">>
             /\ \A i \in 1..Len(calls') : calls'[i].got = "ok" /\ calls'[i].status = OK
             /\ Len(file') = 1
             /\ file'[1] \in AssetBodies
             /\ queued' # <<>> =>
                   queued' = <<Response(convert_mc_resources_to_old_format(file'[1]).value)>>
             /\ manifest_failures' = manifest_failures
       /\ (file = <<>> /\ ResourcesPending) =>
             /\ calls' # <<>>
             /\ calls'[1].api = "version_manifest"
             /\ (\E i \in 1..Len(calls') : calls'[i].got # "ok" \/ calls'[i].status # OK) =>
                   /\ file' = <<>>
                   /\ queued' = <<>>
                   /\ manifest_failures' = manifest_failures + 1
       /\ file # <<>> => file' = file
      ]_vars

\* after a /resources/ request in which a fetch failed, the next one started
\* again from the version manifest, persisted the index and answered
C18_Witness ==
    /\ Handled
    /\ nreq = 2
    /\ manifest_failures = 1
    /\ Matches(request)
    /\ request.path = P_RESOURCES
    /\ CallOrder = <<"version_manifest", "package", "asset_index">>
    /\ file # <<>>
    /\ Len(queued) = 1

=============================================================================
